---- MODULE Spec2Model ----
(***************************************************************************)
(* A model of lnd-exporter.py: the LND REST client (bounded retries, one   *)
(* connection per attempt, heartbeat gauge), the registration loop that    *)
(* turns the METRICS specification into gauges and collectors, the scrape  *)
(* cycle that evaluates them, the pure functions parse_metrics_spec and    *)
(* LND.parse, and the two collectors.                                      *)
(***************************************************************************)
EXTENDS Integers, Sequences, FiniteSets, TLC

\* ------------------------------------------------------------------ bounds
MaxRetries == 3      \* largest LND_REST_RETRIES value explored
MaxClock == 2        \* the wall clock ticks from 1 up to this value
MaxEntries == 2      \* longest parsed METRICS specification explored
MaxText == 5         \* longest METRICS text given to parse_metrics_spec
MaxPath == 4         \* longest dotted key path given to LND.parse
MaxDepth == 2        \* deepest nesting of the JSON objects LND answers with
MaxChannels == 2     \* longest channel list handed to HTLCCollector
MaxHtlcs == 3        \* most pending HTLC records on one channel
MaxPayments == 3     \* longest payment list handed to FailedPaymentsCollector
NServers == 2        \* threads that may serve a scrape
MaxTimeout == 2      \* largest LND_REST_TIMEOUT explored, in time units
MaxSleep == 2        \* largest LND_REST_RETRY_SLEEP explored, in time units

\* ------------------------------------------------------- program constants
DefaultTimeout == 60      \* line 65
DefaultRetrySleep == 10   \* line 67

\* ------------------------------------------------------------------- state
VARIABLES
    retries,     \* LND.retries, from LND_REST_RETRIES
    timeout,     \* LND.timeout, from LND_REST_TIMEOUT
    retry_sleep, \* LND.retry_sleep, from LND_REST_RETRY_SLEEP
    entries,     \* parse_metrics_spec(METRICS): sequence of [label, cmd]
    phase,       \* "register" | "aborted" | "serving"
    regIdx,      \* position of the registration loop in entries
    registry,    \* REGISTRY: sequence of registered [name, kind, cmd]
    clock,       \* time.time()
    heartbeat,   \* value of the LAST_SUCCESS gauge
    thr,         \* per thread: position inside get and inside a scrape
    text,        \* a METRICS text, as a sequence of characters
    runs,        \* what the calls of parse_metrics_spec(text) returned, in order
    reply,       \* a response body handed to LND.parse
    keypath,     \* the result argument of LND.parse, as a sequence of characters
    value,       \* what LND.parse returned or raised
    chanId,      \* a chan_id, as its eight bytes, most significant first
    scid,        \* the short id computed from chanId
    channels,    \* a decoded /v1/channels body handed to HTLCCollector
    htlcOut,     \* what HTLCCollector.collect yielded or raised
    payments,    \* a decoded /v1/payments body handed to FailedPaymentsCollector
    failedOut    \* what FailedPaymentsCollector.collect yielded or raised

collVars == <<chanId, scid, channels, htlcOut, payments, failedOut>>
timingVars == <<timeout, retry_sleep>>
pureVars == <<text, runs, reply, keypath, value, collVars, timingVars>>
vars == <<retries, entries, phase, regIdx, registry, clock, heartbeat, thr, pureVars>>

Main == 0
Servers == 1..NServers
Threads == {Main} \cup Servers

\* --------------------------------------------------------- remote answers
Bodies == {"b1", "b2"}

\* lines 109-111, 121, 125, 134: the bodies an evaluation raises on (text
\* that is not JSON, a key path that is missing, a channel record without
\* a chan_id); the others it gets through
Malformed == {"b2"}

\* What one attempt can meet: the connection cannot be made, the request
\* times out, or a response arrives with a status and a body that
\* resp.read().decode("utf8") either yields or raises on.
Outcomes ==
    {[kind |-> "connect", status |-> 0, readable |-> FALSE, body |-> "b1"],
     [kind |-> "timeout", status |-> 0, readable |-> FALSE, body |-> "b1"]}
    \cup [kind : {"response"}, status : {200, 399, 400, 500},
          readable : BOOLEAN, body : Bodies]

\* line 92: if resp.status >= 400: raise
IsErrorStatusOff(status) == status > 400
IsErrorStatus(status) == status >= 400

\* lines 82-96: the attempt reaches LAST_SUCCESS.set only when the request,
\* getresponse, read and decode all return and the status is below 400.
AttemptSucceedsUnread(o) == o.kind = "response" /\ ~IsErrorStatus(o.status)
AttemptSucceeds(o) ==
    /\ o.kind = "response"
    /\ o.readable
    /\ ~IsErrorStatus(o.status)

\* the exception the attempt raises otherwise (what last_exc is bound to)
AttemptError(o) ==
    IF o.kind # "response" THEN o.kind
    ELSE IF ~o.readable THEN "read"
    ELSE "http"

\* ------------------------------------------------------------ connections
NoConn == [state |-> "none", uses |-> 0]

\* lines 69-75, 80: every loop iteration builds a new HTTPSConnection
new_conn == [state |-> "new", uses |-> 0]

\* lines 100-104: finally: conn.close()
close_conn_skipped(c) == c
close_conn(c) == [c EXCEPT !.state = "closed"]

\* --------------------------------------------------------------- threads
IdleThread ==
    [pc |-> "idle", i |-> 0, conn |-> NoConn, now |-> 0, exc |-> "None",
     body |-> "none", ret |-> "none", req |-> 0, slp |-> 0,
     idx |-> 0,
     \* history, read by no action: the heartbeat when the scrape began,
     \* whether an attempt of the scrape met a status below 400, and for
     \* the call under way the first attempt that met a status below 400,
     \* the first whose body also arrived, and the body the node sent then
     hb0 |-> 0, lowSeen |-> FALSE, lowAt |-> 0, okAt |-> 0, sent |-> "none",
     \* the reading the call under way wrote to the heartbeat, and how the
     \* last scrape ended: its page, the items it had evaluated, the items
     \* its page reports
     hbAt |-> 0, page |-> "none", good |-> 0, shown |-> 0,
     \* the longest the call under way can have blocked so far, each
     \* attempt lasting up to the timeout
     blk |-> 0]

\* an attempt the remote end answered with a status below 400
LowStatus(o) == o.kind = "response" /\ o.status < 400

InGet(t) == thr[t].pc \in {"loop", "request", "clock", "set", "except", "finally"}

\* ------------------------------------------------------- LND.get, by step
\* line 78: a caller enters get; last_exc = None and the loop has not run.
get_enter(t) ==
    [thr[t] EXCEPT !.pc = "loop", !.i = 0, !.exc = "None", !.body = "none",
                   !.ret = "none", !.req = 0, !.slp = 0, !.conn = NoConn,
                   !.now = 0, !.lowAt = 0, !.okAt = 0, !.sent = "none",
                   !.hbAt = 0, !.blk = 0]

\* line 79: for _ in range(self.retries)
LoopHasNextOff(i) == i <= retries
LoopHasNext(i) == i < retries

\* lines 79-80 and 105: the loop header. Either one more iteration starts
\* with a connection of its own, or the loop is over and get raises.
get_loop(t) ==
    /\ thr[t].pc = "loop"
    /\ IF LoopHasNext(thr[t].i)
       THEN thr' = [thr EXCEPT ![t].i = @ + 1,
                               ![t].conn = new_conn,
                               ![t].pc = "request"]
       ELSE thr' = [thr EXCEPT ![t].ret = "raised", ![t].pc = "done"]
    /\ UNCHANGED <<pureVars, retries, entries, phase, regIdx, registry, clock, heartbeat>>

\* lines 82-93: the request is sent on this attempt's connection and the
\* remote end answers (or does not). A socket exists once the connect
\* succeeded. The attempt goes on to the heartbeat or to the handler.
get_request(t) ==
    /\ thr[t].pc = "request"
    /\ \E o \in Outcomes :
         thr' = [thr EXCEPT
            ![t].req = @ + 1,
            ![t].blk = @ + timeout,
            ![t].conn = [state |-> IF o.kind = "connect" THEN @.state ELSE "open",
                         uses |-> @.uses + 1],
            ![t].lowSeen = @ \/ LowStatus(o),
            ![t].lowAt = IF @ = 0 /\ LowStatus(o) THEN thr[t].i ELSE @,
            ![t].okAt = IF @ = 0 /\ LowStatus(o) /\ o.readable THEN thr[t].i ELSE @,
            ![t].sent = IF @ = "none" /\ LowStatus(o) /\ o.readable THEN o.body ELSE @,
            ![t].exc = IF AttemptSucceeds(o) THEN @ ELSE AttemptError(o),
            ![t].body = IF AttemptSucceeds(o) THEN o.body ELSE @,
            ![t].pc = IF AttemptSucceeds(o) THEN "clock" ELSE "except"]
    /\ UNCHANGED <<pureVars, retries, entries, phase, regIdx, registry, clock, heartbeat>>

\* line 95, first half: time.time() is evaluated
get_clock(t) ==
    /\ thr[t].pc = "clock"
    /\ thr' = [thr EXCEPT ![t].now = clock, ![t].pc = "set"]
    /\ UNCHANGED <<pureVars, retries, entries, phase, regIdx, registry, clock, heartbeat>>

\* line 95, second half, and line 96: LAST_SUCCESS.set(<that time>); return
get_set(t) ==
    /\ thr[t].pc = "set"
    /\ heartbeat' = thr[t].now
    /\ thr' = [thr EXCEPT ![t].ret = thr[t].body, ![t].hbAt = thr[t].now,
                          ![t].pc = "finally"]
    /\ UNCHANGED <<pureVars, retries, entries, phase, regIdx, registry, clock>>

\* line 99: time.sleep(self.retry_sleep), whichever attempt i failed
SleptUnlessLast(n, i) == IF i < retries THEN n + 1 ELSE n
Slept(n, i) == n + 1

\* line 99: the sleep after attempt i lasts retry_sleep
SleepTimeBackoff(i) == retry_sleep * i
SleepTime(i) == retry_sleep

\* lines 97-99: except Exception: last_exc = e; time.sleep(retry_sleep)
get_except(t) ==
    /\ thr[t].pc = "except"
    /\ thr' = [thr EXCEPT ![t].slp = Slept(@, thr[t].i),
                          ![t].blk = @ + SleepTime(thr[t].i),
                          ![t].pc = "finally"]
    /\ UNCHANGED <<pureVars, retries, entries, phase, regIdx, registry, clock, heartbeat>>

\* lines 100-104: finally: conn.close(); then the pending return leaves get,
\* or the loop goes round.
get_finally(t) ==
    /\ thr[t].pc = "finally"
    /\ thr' = [thr EXCEPT ![t].conn = close_conn(@),
                          ![t].pc = IF thr[t].ret \in Bodies THEN "done" ELSE "loop"]
    /\ UNCHANGED <<pureVars, retries, entries, phase, regIdx, registry, clock, heartbeat>>

\* -------------------------------------------------------- string helpers
\* str.split(sep): the pieces between the separators, empty ones included
RECURSIVE SplitOn(_, _)
SplitOn(s, sep) ==
    IF \A k \in 1..Len(s) : s[k] # sep
    THEN <<s>>
    ELSE LET k == CHOOSE k \in 1..Len(s) :
                    s[k] = sep /\ \A j \in 1..(k - 1) : s[j] # sep
         IN <<SubSeq(s, 1, k - 1)>> \o SplitOn(SubSeq(s, k + 1, Len(s)), sep)

Whitespace == {" ", "\n"}

\* str.strip()
RECURSIVE LStrip(_)
LStrip(s) == IF s # <<>> /\ Head(s) \in Whitespace THEN LStrip(Tail(s)) ELSE s
RECURSIVE RStrip(_)
RStrip(s) ==
    IF s # <<>> /\ s[Len(s)] \in Whitespace THEN RStrip(SubSeq(s, 1, Len(s) - 1)) ELSE s
Strip(s) == RStrip(LStrip(s))

\* str.splitlines(): the lines, without a last empty one after a final newline
SplitLines(s) ==
    LET parts == SplitOn(s, "\n")
    IN IF parts[Len(parts)] = <<>> THEN SubSeq(parts, 1, Len(parts) - 1) ELSE parts

\* str.split(): the runs of characters that are not whitespace
RECURSIVE SplitWhitespace(_)
SplitWhitespace(s) ==
    LET t == LStrip(s)
    IN IF t = <<>> THEN <<>>
       ELSE LET n == IF \E k \in 1..Len(t) : t[k] \in Whitespace
                     THEN (CHOOSE k \in 1..Len(t) :
                              t[k] \in Whitespace /\ \A j \in 1..(k - 1) : t[j] \notin Whitespace) - 1
                     ELSE Len(t)
            IN <<SubSeq(t, 1, n)>> \o SplitWhitespace(SubSeq(t, n + 1, Len(t)))

\* str.split(sep, 1): cut at the first separator, if there is one
SplitLast(s, sep) ==
    IF \A k \in 1..Len(s) : s[k] # sep
    THEN <<s>>
    ELSE LET k == CHOOSE k \in 1..Len(s) :
                    s[k] = sep /\ \A j \in (k + 1)..Len(s) : s[j] # sep
         IN <<SubSeq(s, 1, k - 1), SubSeq(s, k + 1, Len(s))>>
SplitFirst(s, sep) ==
    IF \A k \in 1..Len(s) : s[k] # sep
    THEN <<s>>
    ELSE LET k == CHOOSE k \in 1..Len(s) :
                    s[k] = sep /\ \A j \in 1..(k - 1) : s[j] # sep
         IN <<SubSeq(s, 1, k - 1), SubSeq(s, k + 1, Len(s))>>

\* ------------------------------------- parse_metrics_spec, lines 150-166
\* line 154: blank lines and comment lines are skipped
SkipsLine(s) == s = <<>> \/ Head(s) = "#"

\* lines 152-159: the tokens of the lines that are kept
RECURSIVE LinesToTokens(_)
LinesToTokens(raws) ==
    IF raws = <<>> THEN <<>>
    ELSE LET s == Strip(Head(raws))
         IN (IF SkipsLine(s) THEN <<>> ELSE SplitWhitespace(s))
            \o LinesToTokens(Tail(raws))

\* line 162: a token without "=" is passed over
SkipsTokenNever(tok) == FALSE
SkipsToken(tok) == \A k \in 1..Len(tok) : tok[k] # "="

\* line 164: label, cmd = labeled_cmd.strip().split("=", 1)
SplitEntryAtLast(tok) == SplitLast(Strip(tok), "=")
SplitEntry(tok) == SplitFirst(Strip(tok), "=")

\* lines 160-166: the entries; unpacking anything but two pieces raises
RECURSIVE TokensToEntries(_)
TokensToEntries(toks) ==
    IF toks = <<>> THEN [raised |-> FALSE, out |-> <<>>]
    ELSE IF SkipsToken(Head(toks)) THEN TokensToEntries(Tail(toks))
    ELSE LET pieces == SplitEntry(Head(toks))
             rest == TokensToEntries(Tail(toks))
         IN IF Len(pieces) # 2 \/ rest.raised
            THEN [raised |-> TRUE, out |-> <<>>]
            ELSE [raised |-> FALSE,
                  out |-> <<[label |-> Strip(pieces[1]), cmd |-> Strip(pieces[2])]>>
                          \o rest.out]

parse_metrics_spec(spec) == TokensToEntries(LinesToTokens(SplitLines(spec)))

\* ------------------------------------------------------- JSON documents
\* A JSON value is the set of its <<path, leaf>> pairs: a number is a leaf
\* at the empty path, an object holds the pairs of its members under their
\* keys, and an object without members is the mark "{}" at the empty path.
Keys == {<<"a">>, <<"b">>}
Number == {<<<<>>, "7">>}
EmptyObject == {<<<<>>, "{}">>}

Object(f) ==
    IF \A k \in Keys : f[k] = {}
    THEN EmptyObject
    ELSE UNION {{<<<<k>> \o pl[1], pl[2]>> : pl \in f[k]} : k \in Keys}

RECURSIVE JsonValues(_)
JsonValues(depth) ==
    IF depth = 0 THEN {Number}
    ELSE {Number} \cup {Object(f) : f \in [Keys -> JsonValues(depth - 1) \cup {{}}]}

NotJson == [json |-> FALSE, val |-> {}]
Replies == {NotJson} \cup [json : {TRUE}, val : JsonValues(MaxDepth)]

\* ------------------------------------------------ LND.parse, lines 107-112
NoValue == [ok |-> FALSE, err |-> "not called", at |-> 0, val |-> {}]
Raised(err, at) == [ok |-> FALSE, err |-> err, at |-> at, val |-> {}]

IsObject(v) == \A pl \in v : pl[1] # <<>> \/ pl[2] = "{}"
Member(v, key) ==
    {<<Tail(pl[1]), pl[2]>> : pl \in {q \in v : q[1] # <<>> /\ Head(q[1]) = key}}

\* line 111: data[key], which raises TypeError on a value that is no object
\* and KeyError on an object without the key
IndexOrDefault(v, key) ==
    IF ~IsObject(v) \/ Member(v, key) = {}
    THEN [ok |-> TRUE, err |-> "", val |-> Number]
    ELSE [ok |-> TRUE, err |-> "", val |-> Member(v, key)]
Index(v, key) ==
    IF ~IsObject(v) THEN [ok |-> FALSE, err |-> "TypeError", val |-> {}]
    ELSE IF Member(v, key) = {} THEN [ok |-> FALSE, err |-> "KeyError", val |-> {}]
    ELSE [ok |-> TRUE, err |-> "", val |-> Member(v, key)]

\* lines 110-112: for key in result.split("."): data = data[key]; return data
RECURSIVE Descend(_, _, _)
Descend(data, segs, n) ==
    IF n > Len(segs) THEN [ok |-> TRUE, err |-> "", at |-> 0, val |-> data]
    ELSE LET step == Index(data, segs[n])
         IN IF step.ok THEN Descend(step.val, segs, n + 1)
            ELSE Raised(step.err, n)

\* lines 108-112, on the body get returned
LND_parse(body, result) ==
    IF ~body.json THEN Raised("JSONDecodeError", 0)
    ELSE Descend(body.val, SplitOn(result, "."), 1)

\* ------------------------------------- short channel ids, lines 125-126
\* A chan_id is held as its eight bytes, most significant first, so that
\* the 64-bit value needs no arithmetic wider than 24 bits.
ExampleChanId == <<0, 0, 1, 0, 0, 2, 0, 3>>
ChanIds == [1..8 -> {0, 1, 255}] \cup {ExampleChanId}

\* chan_id >> bits, for a whole number of bytes
ShiftRight(bs, bits) == SubSeq(bs, 1, Len(bs) - (bits \div 8))

\* chan_id & (2^bits - 1), for a whole number of bytes
MaskLow(bs, bits) ==
    IF Len(bs) <= bits \div 8 THEN bs
    ELSE SubSeq(bs, Len(bs) - (bits \div 8) + 1, Len(bs))

\* the number a byte sequence spells
RECURSIVE ToInt(_)
ToInt(bs) == IF bs = <<>> THEN 0 ELSE ToInt(SubSeq(bs, 1, Len(bs) - 1)) * 256 + bs[Len(bs)]

\* the decimal numeral an f-string writes for a number that is not negative
DigitChars == <<"0", "1", "2", "3", "4", "5", "6", "7", "8", "9">>
RECURSIVE Decimal(_)
Decimal(n) ==
    IF n < 10 THEN <<DigitChars[n + 1]>>
    ELSE Decimal(n \div 10) \o <<DigitChars[(n % 10) + 1]>>

\* line 126: (chan_id >> 40) & 0xFFFFFF, (chan_id >> 16) & 0xFFFFFF,
\* chan_id & 0xFFFF
BlockHeight(c) == ToInt(MaskLow(ShiftRight(c, 40), 24))
TxIndexNarrow(c) == ToInt(MaskLow(ShiftRight(c, 16), 16))
TxIndex(c) == ToInt(MaskLow(ShiftRight(c, 16), 24))
OutputIndex(c) == ToInt(MaskLow(c, 16))

\* line 126: f"{height}x{tx}x{output}"
short_id(c) ==
    Decimal(BlockHeight(c)) \o <<"x">> \o Decimal(TxIndex(c)) \o <<"x">>
        \o Decimal(OutputIndex(c))

\* --------------------------------------------- collectors, lines 118-139
\* A decoded body: not JSON at all, a JSON value that is no object, or an
\* object that may hold the list the collector looks for.
BodyKinds == {"notjson", "array", "object"}
CollectRaised == [raised |-> TRUE, samples |-> <<>>, called |-> TRUE]
Collected(samples) == [raised |-> FALSE, samples |-> samples, called |-> TRUE]

\* line 124: data.get("channels", []); line 136: data.get("payments", [])
ListOf(body) == IF body.has THEN body.list ELSE <<>>

\* a channel record: chan_id absent, not a number, or a number; the
\* pending_htlcs list absent or present
ChannelRecords ==
    {ch \in [idKind : {"absent", "garbage", "int"},
             id : {ExampleChanId, [k \in 1..8 |-> 255]},
             hasPending : BOOLEAN,
             pending : UNION {[1..n -> {"htlc"}] : n \in 0..MaxHtlcs}] :
        /\ ch.idKind # "int" => ch.id = ExampleChanId
        /\ ~ch.hasPending => ch.pending = <<>>}

ChannelBodies ==
    {[kind |-> k, has |-> FALSE, list |-> <<>>] : k \in BodyKinds} \cup
    [kind : {"object"}, has : {TRUE},
     list : UNION {[1..n -> ChannelRecords] : n \in 0..MaxChannels}]

\* line 125: int(channel["chan_id"]) raises KeyError or ValueError
ChanIdReadable(ch) == ch.idKind = "int"

\* line 127: len(channel.get("pending_htlcs", []))
PendingCount(ch) == IF ch.hasPending THEN Len(ch.pending) ELSE 0

\* line 127: g.add_metric([short_id], count)
AddMetricFirst(samples, label, v) == <<[label |-> label, value |-> v]>> \o samples
AddMetric(samples, label, v) == Append(samples, [label |-> label, value |-> v])

\* lines 124-127: the loop over the channels, up to channel n
RECURSIVE ChannelLoop(_, _)
ChannelLoop(list, n) ==
    IF n = 0 THEN Collected(<<>>)
    ELSE LET before == ChannelLoop(list, n - 1)
         IN IF before.raised \/ ~ChanIdReadable(list[n]) THEN CollectRaised
            ELSE Collected(AddMetric(before.samples, short_id(list[n].id),
                                     PendingCount(list[n])))

\* lines 119-128: json.loads, data.get, the loop, yield g
HTLCCollector_collect(body) ==
    IF body.kind # "object" THEN CollectRaised
    ELSE ChannelLoop(ListOf(body), Len(ListOf(body)))

\* a payment record, with or without a status (the status of a record
\* without one is never read)
PaymentRecords ==
    {p \in [hasStatus : BOOLEAN,
            status : {"FAILED", "SUCCEEDED", "IN_FLIGHT", "failed"}] :
        ~p.hasStatus => p.status = "FAILED"}

PaymentBodies ==
    {[kind |-> k, has |-> FALSE, list |-> <<>>] : k \in BodyKinds} \cup
    [kind : {"object"}, has : {TRUE},
     list : UNION {[1..n -> PaymentRecords] : n \in 0..MaxPayments}]

\* line 136: payment.get("status") == "FAILED"
IsFailedAnyCase(p) == p.hasStatus /\ p.status \in {"FAILED", "failed"}
IsFailed(p) == p.hasStatus /\ p.status = "FAILED"

\* line 136: sum(1 for payment in ... if ...)
RECURSIVE FailedCount(_, _)
FailedCount(list, n) ==
    IF n = 0 THEN 0
    ELSE FailedCount(list, n - 1) + (IF IsFailed(list[n]) THEN 1 ELSE 0)

\* lines 132-139
FailedPaymentsCollector_collect(body) ==
    IF body.kind # "object" THEN CollectRaised
    ELSE Collected(AddMetric(<<>>, <<>>, FailedCount(ListOf(body), Len(ListOf(body)))))

\* ------------------------------------------------ the METRICS specification
CmdHTLC == "PENDING_HTLCS"
CmdFailed == "FAILED_PAYMENTS"
ParseCommands == {"parse(\"/v1/getinfo\",\"num_peers\")"}
OtherCommands == {"uptime"}
Commands == {CmdHTLC, CmdFailed} \cup ParseCommands \cup OtherCommands
Labels == {"lnd_peers", "lnd_uptime"}

\* the entries parse_metrics_spec can hand to the registration loop; the
\* label of a collector entry is read by nothing but the print of line 182
EntryPool ==
    [label : Labels, cmd : ParseCommands \cup OtherCommands]
    \cup {[label |-> "lnd_peers", cmd |-> CmdHTLC], [label |-> "lnd_peers", cmd |-> CmdFailed]}

EntrySeqs == UNION {[1..n -> EntryPool] : n \in 0..MaxEntries}

\* lines 143-147: the lambda is built, not called; building it cannot
\* raise, so the except branch and its None are never taken.
make_metric_function(cmd) == [none |-> FALSE, cmd |-> cmd]

\* names a registered item owns in REGISTRY
RegisteredNames == {registry[k].name : k \in 1..Len(registry)}
CollectorName(cmd) == IF cmd = CmdHTLC THEN "pending_htlcs" ELSE "failed_payments"

\* ----------------------------------------------- registration, lines 170-182
\* One entry of the loop. A collector entry goes through REGISTRY.register,
\* which collects once to learn the metric names (the collectors define no
\* describe), so the main thread enters get; a gauge entry is created, its
\* function made and bound in one go.
reg_entry ==
    /\ phase = "register"
    /\ thr[Main].pc = "idle"
    /\ regIdx <= Len(entries)
    /\ LET e == entries[regIdx]
           fn == make_metric_function(e.cmd)
       IN IF e.cmd \in {CmdHTLC, CmdFailed}
          THEN /\ thr' = [thr EXCEPT ![Main] =
                            [get_enter(Main) EXCEPT !.hb0 = heartbeat, !.lowSeen = FALSE]]
               /\ UNCHANGED <<phase, regIdx, registry>>
          ELSE /\ IF e.label \in RegisteredNames \/ fn.none
                  THEN /\ phase' = "aborted"
                       /\ UNCHANGED <<regIdx, registry>>
                  ELSE /\ registry' = Append(registry,
                              [name |-> e.label, kind |-> "gauge", cmd |-> fn.cmd])
                       /\ regIdx' = regIdx + 1
                       /\ UNCHANGED phase
               /\ UNCHANGED thr
    /\ UNCHANGED <<pureVars, retries, entries, clock, heartbeat>>

\* what get gave the evaluation makes it raise: get raised itself, or the
\* body is one the decoding raises on
EvaluationRaises(ret) == ret = "raised" \/ ret \in Malformed

\* the exposition layer evaluates the registered items one after the other
\* and writes the page at the end: an exception out of an evaluation ends
\* the scrape with an error status and no sample at all
Reported(good, failed) == IF failed THEN 0 ELSE good

\* the thread after a scrape an exception ended at item idx
ScrapeFailed(t) ==
    [IdleThread EXCEPT
        !.page = IF thr[t].ret = "raised" THEN "fetch failed" ELSE "evaluation failed",
        !.good = IF thr[t].idx = 0 THEN 0 ELSE thr[t].idx - 1,
        !.shown = Reported(IF thr[t].idx = 0 THEN 0 ELSE thr[t].idx - 1, TRUE),
        !.hbAt = thr[t].hbAt]

\* the thread after a scrape that evaluated every item
ScrapeDone(t) ==
    [IdleThread EXCEPT !.page = "ok", !.good = thr[t].idx,
                       !.shown = Reported(thr[t].idx, FALSE)]

\* lines 108-111, 121-127, 134-136: no handler of an evaluation touches
\* LAST_SUCCESS
HeartbeatRolledBack(t) == thr[t].hb0
HeartbeatAfterEvaluation(t) == heartbeat

\* lines 172, 174: the collect made by REGISTRY.register has come back
reg_collector ==
    /\ phase = "register"
    /\ thr[Main].pc = "done"
    /\ LET e == entries[regIdx]
       IN IF EvaluationRaises(thr[Main].ret)
          THEN /\ phase' = "aborted"
               /\ thr' = [thr EXCEPT ![Main] = ScrapeFailed(Main)]
               /\ heartbeat' = HeartbeatAfterEvaluation(Main)
               /\ UNCHANGED <<regIdx, registry>>
          ELSE /\ IF CollectorName(e.cmd) \in RegisteredNames
                  THEN /\ phase' = "aborted"
                       /\ UNCHANGED <<regIdx, registry>>
                  ELSE /\ registry' = Append(registry,
                              [name |-> CollectorName(e.cmd), kind |-> "collector",
                               cmd |-> e.cmd])
                       /\ regIdx' = regIdx + 1
                       /\ UNCHANGED phase
               /\ thr' = [thr EXCEPT ![Main] = IdleThread]
               /\ UNCHANGED heartbeat
    /\ UNCHANGED <<pureVars, retries, entries, clock>>

\* lines 170-195: the statement after the loop is reached when the loop has
\* run out of entries, and not when an exception left the module
MayStartServerAnyway == phase \in {"register", "aborted"}
MayStartServer == phase = "register" /\ regIdx > Len(entries)

\* line 195: the loop is over, the server thread is started
start_server ==
    /\ MayStartServer
    /\ phase' = "serving"
    /\ UNCHANGED <<pureVars, retries, entries, regIdx, registry, clock, heartbeat, thr>>

\* ------------------------------------------------------------- one scrape
\* lines 190-192: a request for the metrics page arrives on thread t
scrape_begin(t) ==
    /\ phase = "serving"
    /\ t \in Servers
    /\ thr[t].pc = "idle"
    /\ thr[t].idx = 0
    /\ Len(registry) > 0
    /\ thr' = [thr EXCEPT ![t] = [IdleThread EXCEPT !.idx = 1, !.hb0 = heartbeat]]
    /\ UNCHANGED <<pureVars, retries, entries, phase, regIdx, registry, clock, heartbeat>>

\* lines 120, 133, 145 (through 108): the next registered item is evaluated.
\* Collectors and parse(...) gauges call get; any other command fails in
\* eval before any request, and the exception ends the scrape.
eval_begin(t) ==
    /\ thr[t].pc = "idle"
    /\ thr[t].idx \in 1..Len(registry)
    /\ LET item == registry[thr[t].idx]
       IN IF item.kind = "collector" \/ item.cmd \in ParseCommands
          THEN thr' = [thr EXCEPT ![t] = get_enter(t)]
          ELSE thr' = [thr EXCEPT ![t] = ScrapeFailed(t)]
    /\ UNCHANGED <<pureVars, retries, entries, phase, regIdx, registry, clock, heartbeat>>

\* get has returned or raised inside a scrape: the next item follows, or
\* the exception leaves the evaluation and the scrape is over.
eval_end(t) ==
    /\ phase = "serving"
    /\ thr[t].pc = "done"
    /\ IF EvaluationRaises(thr[t].ret)
       THEN /\ thr' = [thr EXCEPT ![t] = ScrapeFailed(t)]
            /\ heartbeat' = HeartbeatAfterEvaluation(t)
       ELSE /\ IF thr[t].idx = Len(registry)
               THEN thr' = [thr EXCEPT ![t] = ScrapeDone(t)]
               ELSE thr' = [thr EXCEPT ![t] =
                             [IdleThread EXCEPT !.idx = thr[t].idx + 1,
                                                !.hb0 = thr[t].hb0,
                                                !.lowSeen = thr[t].lowSeen]]
            /\ UNCHANGED heartbeat
    /\ UNCHANGED <<pureVars, retries, entries, phase, regIdx, registry, clock>>

\* time passes
Tick ==
    /\ clock < MaxClock
    /\ clock' = clock + 1
    /\ UNCHANGED <<pureVars, retries, entries, phase, regIdx, registry, heartbeat, thr>>

\* ---------------------------------------------------------- specifications
\* a body not handed to a collector, a collector not run
NoBody == [kind |-> "none", has |-> FALSE, list |-> <<>>]
NotCollected == [raised |-> FALSE, samples |-> <<>>, called |-> FALSE]

\* nothing has been decoded or collected
NoScid == <<>>
NoCollect ==
    /\ chanId = ExampleChanId
    /\ scid = NoScid
    /\ channels = NoBody
    /\ htlcOut = NotCollected
    /\ payments = NoBody
    /\ failedOut = NotCollected

\* lines 65, 67: the environment sets neither LND_REST_TIMEOUT nor
\* LND_REST_RETRY_SLEEP
DefaultTiming ==
    /\ timeout = DefaultTimeout
    /\ retry_sleep = DefaultRetrySleep

\* no text has been parsed and no body descended
NoCalls ==
    /\ text = <<>>
    /\ runs = <<>>
    /\ reply = NotJson
    /\ keypath = <<>>
    /\ value = NoValue
    /\ NoCollect

Init ==
    /\ retries \in 0..MaxRetries
    /\ DefaultTiming
    /\ entries \in EntrySeqs
    /\ phase = "register"
    /\ regIdx = 1
    /\ registry = <<>>
    /\ clock = 1
    /\ heartbeat = 0
    /\ thr = [t \in Threads |-> IdleThread]
    /\ NoCalls

\* the program as written: one main thread, one server thread (line 195)
Running == {Main, 1}

Next ==
    \/ reg_entry
    \/ reg_collector
    \/ start_server
    \/ scrape_begin(1)
    \/ Tick
    \/ \E t \in Running : eval_begin(t)
    \/ \E t \in Running : eval_end(t)
    \/ \E t \in Running : get_loop(t)
    \/ \E t \in Running : get_request(t)
    \/ \E t \in Running : get_clock(t)
    \/ \E t \in Running : get_set(t)
    \/ \E t \in Running : get_except(t)
    \/ \E t \in Running : get_finally(t)

Spec == Init /\ [][Next]_vars

\* An exposition layer that serves scrapes on separate threads: every server
\* thread may begin a scrape while another is inside one.
InitThreaded ==
    /\ retries = 1
    /\ DefaultTiming
    /\ entries \in {e \in EntrySeqs : Len(e) = 1}
    /\ phase = "register"
    /\ regIdx = 1
    /\ registry = <<>>
    /\ clock = 1
    /\ heartbeat = 0
    /\ thr = [t \in Threads |-> IdleThread]
    /\ NoCalls

NextThreaded ==
    \/ reg_entry
    \/ reg_collector
    \/ start_server
    \/ Tick
    \/ \E t \in Threads : scrape_begin(t)
    \/ \E t \in Threads : eval_begin(t)
    \/ \E t \in Threads : eval_end(t)
    \/ \E t \in Threads : get_loop(t)
    \/ \E t \in Threads : get_request(t)
    \/ \E t \in Threads : get_clock(t)
    \/ \E t \in Threads : get_set(t)
    \/ \E t \in Threads : get_except(t)
    \/ \E t \in Threads : get_finally(t)

SpecThreaded == InitThreaded /\ [][NextThreaded]_vars

\* the program of Spec under every small timeout and retry sleep, with one
\* entry in the METRICS specification
InitTiming ==
    /\ retries \in 0..MaxRetries
    /\ timeout \in 1..MaxTimeout
    /\ retry_sleep \in 0..MaxSleep
    /\ entries \in {e \in EntrySeqs : Len(e) = 1}
    /\ phase = "register"
    /\ regIdx = 1
    /\ registry = <<>>
    /\ clock = 1
    /\ heartbeat = 0
    /\ thr = [t \in Threads |-> IdleThread]
    /\ NoCalls

SpecTiming == InitTiming /\ [][Next]_vars

\* the client, the registry and the threads as the module leaves them
Dormant ==
    /\ retries = 1
    /\ DefaultTiming
    /\ entries = <<>>
    /\ phase = "register"
    /\ regIdx = 1
    /\ registry = <<>>
    /\ clock = 1
    /\ heartbeat = 0
    /\ thr = [t \in Threads |-> IdleThread]

mainVars == <<retries, timingVars, entries, phase, regIdx, registry, clock, heartbeat, thr>>

\* parse_metrics_spec applied, twice over, to every short text
TextChars == {"a", "=", " ", "\n", "#"}
Texts == UNION {[1..n -> TextChars] : n \in 0..MaxText}

InitMetrics ==
    /\ Dormant
    /\ text \in Texts
    /\ runs = <<>>
    /\ reply = NotJson
    /\ keypath = <<>>
    /\ value = NoValue
    /\ NoCollect

call_parse_metrics_spec ==
    /\ Len(runs) < 2
    /\ runs' = Append(runs, parse_metrics_spec(text))
    /\ UNCHANGED <<mainVars, text, reply, keypath, value, collVars>>

SpecMetrics == InitMetrics /\ [][call_parse_metrics_spec]_vars

\* LND.parse applied to every small body and every short key path
PathChars == {"a", "b", "."}
KeyPaths == UNION {[1..n -> PathChars] : n \in 0..MaxPath}

InitParse ==
    /\ Dormant
    /\ text = <<>>
    /\ runs = <<>>
    /\ reply \in Replies
    /\ keypath \in KeyPaths
    /\ value = NoValue
    /\ NoCollect

call_parse ==
    /\ value = NoValue
    /\ value' = LND_parse(reply, keypath)
    /\ UNCHANGED <<mainVars, text, runs, reply, keypath, collVars>>

SpecParse == InitParse /\ [][call_parse]_vars

\* the short id of every sampled chan_id
InitScid ==
    /\ Dormant
    /\ text = <<>>
    /\ runs = <<>>
    /\ reply = NotJson
    /\ keypath = <<>>
    /\ value = NoValue
    /\ chanId \in ChanIds
    /\ scid = NoScid
    /\ channels = NoBody
    /\ htlcOut = NotCollected
    /\ payments = NoBody
    /\ failedOut = NotCollected

call_short_id ==
    /\ scid = NoScid
    /\ scid' = short_id(chanId)
    /\ UNCHANGED <<mainVars, text, runs, reply, keypath, value,
                   chanId, channels, htlcOut, payments, failedOut>>

SpecScid == InitScid /\ [][call_short_id]_vars

\* HTLCCollector.collect on every small /v1/channels body
InitHTLC ==
    /\ Dormant
    /\ text = <<>>
    /\ runs = <<>>
    /\ reply = NotJson
    /\ keypath = <<>>
    /\ value = NoValue
    /\ chanId = ExampleChanId
    /\ scid = NoScid
    /\ channels \in ChannelBodies
    /\ htlcOut = NotCollected
    /\ payments = NoBody
    /\ failedOut = NotCollected

call_htlc_collect ==
    /\ ~htlcOut.called
    /\ htlcOut' = HTLCCollector_collect(channels)
    /\ UNCHANGED <<mainVars, text, runs, reply, keypath, value,
                   chanId, scid, channels, payments, failedOut>>

SpecHTLC == InitHTLC /\ [][call_htlc_collect]_vars

\* FailedPaymentsCollector.collect on every small /v1/payments body
InitFailed ==
    /\ Dormant
    /\ text = <<>>
    /\ runs = <<>>
    /\ reply = NotJson
    /\ keypath = <<>>
    /\ value = NoValue
    /\ chanId = ExampleChanId
    /\ scid = NoScid
    /\ channels = NoBody
    /\ htlcOut = NotCollected
    /\ payments \in PaymentBodies
    /\ failedOut = NotCollected

call_failed_collect ==
    /\ ~failedOut.called
    /\ failedOut' = FailedPaymentsCollector_collect(payments)
    /\ UNCHANGED <<mainVars, text, runs, reply, keypath, value,
                   chanId, scid, channels, htlcOut, payments>>

SpecFailed == InitFailed /\ [][call_failed_collect]_vars

\* ------------------------------------------------------------------ claims
GetOver(t) == thr[t].pc = "done"

\* C1: with retries = N >= 1, a get call never issues more than N requests,
\* and a call all of whose attempts failed has issued exactly N requests
\* when it ends, and ends by raising, with the last failure as its cause.
C1_BoundedRetry ==
    \A t \in Threads :
        retries >= 1 =>
            /\ thr[t].req <= retries
            /\ (GetOver(t) /\ thr[t].okAt = 0) =>
                  /\ thr[t].req = retries
                  /\ thr[t].ret = "raised"
                  /\ thr[t].exc # "None"

C1_Witness ==
    \E t \in Threads :
        /\ retries >= 2
        /\ GetOver(t)
        /\ thr[t].ret = "raised"
        /\ thr[t].req = retries
        /\ thr[t].exc = "http"

\* C2: while no attempt of the scrape under way has met a status below 400,
\* the heartbeat still has the value it had when the scrape began.
C2_HeartbeatUnchanged ==
    \A t \in Running :
        ((thr[t].pc # "idle" \/ thr[t].idx > 0) /\ ~thr[t].lowSeen)
            => heartbeat = thr[t].hb0

C2_Witness ==
    /\ GetOver(1)
    /\ thr[1].ret = "raised"
    /\ thr[1].req >= 2
    /\ ~thr[1].lowSeen
    /\ heartbeat = thr[1].hb0
    /\ heartbeat > 0
    /\ clock > heartbeat

\* C3: an entry whose command is not PENDING_HTLCS, FAILED_PAYMENTS or a
\* parse(...) call is never registered: the loop does not get past it.
SupportedCommand(cmd) == cmd \in {CmdHTLC, CmdFailed} \cup ParseCommands

C3_UnsupportedNeverBound ==
    /\ \A k \in 1..Len(registry) : SupportedCommand(registry[k].cmd)
    /\ \A k \in 1..Len(entries) : k < regIdx => SupportedCommand(entries[k].cmd)

\* C4: a request is only ever sent on a connection made for that attempt
\* and not used before; the connection is closed when the next attempt
\* begins and when get is over; no socket is open while no get is under way.
C4_ConnectionLifecycle ==
    /\ \A t \in Threads :
          /\ thr[t].conn.uses <= 1
          /\ thr[t].pc = "request" => thr[t].conn = [state |-> "new", uses |-> 0]
          /\ thr[t].pc \in {"loop", "done", "idle"} =>
                thr[t].conn.state \in {"none", "closed"}
    /\ (\A t \in Threads : ~InGet(t)) =>
          Cardinality({t \in Threads : thr[t].conn.state = "open"}) = 0

C4_Witness ==
    \E t \in Threads :
        /\ GetOver(t)
        /\ thr[t].req >= 2
        /\ thr[t].ret \in Bodies
        /\ thr[t].conn = [state |-> "closed", uses |-> 1]

\* C5 as stated: once an attempt of a call has met a status below 400, no
\* further request is made and the call ends by returning a body.
C5_StopsAtFirstLowStatus ==
    \A t \in Threads :
        thr[t].lowAt > 0 =>
            /\ thr[t].req = thr[t].lowAt
            /\ GetOver(t) => thr[t].ret \in Bodies

\* C5 amended: a call ends either by returning the body of the first
\* attempt that met a status below 400 and whose body was read and decoded,
\* with exactly that many requests made and the heartbeat set to a clock
\* reading taken during the call, or, when no attempt was such, by raising
\* after as many requests as retries allows; until then every failure,
\* status >= 400 included, is followed by another attempt.
C5_StopsAtFirstSuccess ==
    \A t \in Running :
        /\ thr[t].okAt > 0 => thr[t].req = thr[t].okAt
        /\ GetOver(t) =>
              \/ /\ thr[t].okAt > 0
                 /\ thr[t].ret = thr[t].sent
                 /\ thr[t].ret \in Bodies
                 /\ heartbeat = thr[t].now
                 /\ thr[t].now \in 1..clock
              \/ /\ thr[t].okAt = 0
                 /\ thr[t].ret = "raised"
                 /\ thr[t].req = retries

C5_Witness ==
    \E t \in Running :
        /\ GetOver(t)
        /\ retries >= 3
        /\ thr[t].okAt = 2
        /\ thr[t].req = 2
        /\ thr[t].exc = "http"
        /\ thr[t].ret = "b2"
        /\ heartbeat = clock

C7_RaisesOnlyAfterARequest ==
    \A t \in Threads :
        (GetOver(t) /\ thr[t].ret = "raised") => (retries >= 1 /\ thr[t].req >= 1)

\* C8: LND.parse returns a value exactly when every prefix of the key path
\* leads to something in the fetched object, and then returns what stands at
\* the end of the path; otherwise it raises at the first segment that leads
\* nowhere and returns nothing.
Under(v, pre) ==
    {pl \in v : Len(pl[1]) >= Len(pre) /\ SubSeq(pl[1], 1, Len(pre)) = pre}
StandsAt(v, pre) ==
    {<<SubSeq(pl[1], Len(pre) + 1, Len(pl[1])), pl[2]>> : pl \in Under(v, pre)}
LeadsNowhere(v, segs) ==
    {n \in 1..Len(segs) : Under(v, SubSeq(segs, 1, n)) = {}}

C8_NoDefault ==
    (value # NoValue /\ reply.json) =>
        LET segs == SplitOn(keypath, ".")
            gaps == LeadsNowhere(reply.val, segs)
        IN IF gaps = {}
           THEN value.ok /\ value.val = StandsAt(reply.val, segs)
           ELSE /\ ~value.ok
                /\ value.val = {}
                /\ value.err \in {"KeyError", "TypeError"}
                /\ value.at \in gaps
                /\ \A n \in gaps : value.at <= n

\* {"a": {}} with the path a.b: KeyError at the second segment
C8_Witness ==
    /\ reply = [json |-> TRUE, val |-> {<<<< <<"a">> >>, "{}">>}]
    /\ keypath = <<"a", ".", "b">>
    /\ value = Raised("KeyError", 2)

\* the tokens of a text, by position: maximal runs without whitespace
TokenEnds(s, i) ==
    {j \in i..Len(s) :
        /\ \A k \in i..j : s[k] \notin Whitespace
        /\ (j = Len(s) \/ s[j + 1] \in Whitespace)}
TokenStarts(s) ==
    {i \in 1..Len(s) :
        /\ s[i] \notin Whitespace
        /\ (i = 1 \/ s[i - 1] \in Whitespace)}
TokenAt(s, i) == SubSeq(s, i, CHOOSE j \in TokenEnds(s, i) : TRUE)
OnCommentLine(s, i) ==
    \E h \in 1..i :
        /\ s[h] = "#"
        /\ \A k \in h..i : s[k] # "\n"
        /\ \E b \in 1..h :
              /\ (b = 1 \/ s[b - 1] = "\n")
              /\ \A k \in b..(h - 1) : s[k] = " "
HasEquals(tok) == \E k \in 1..Len(tok) : tok[k] = "="
KeptStarts(s) ==
    {i \in TokenStarts(s) : HasEquals(TokenAt(s, i)) /\ ~OnCommentLine(s, i)}

\* C9: parse_metrics_spec never raises; it returns one entry for each token
\* that holds an "=" and stands on a line that is not a comment, and none
\* for any other token, so no more entries than the text has tokens.
C9_TokensWithoutEqualsDropped ==
    \A r \in 1..Len(runs) :
        /\ ~runs[r].raised
        /\ Len(runs[r].out) = Cardinality(KeptStarts(text))
        /\ Len(runs[r].out) <= Cardinality(TokenStarts(text))
        /\ \A k \in 1..Len(runs[r].out) :
              \E i \in KeptStarts(text) :
                  TokenAt(text, i) = runs[r].out[k].label \o <<"=">> \o runs[r].out[k].cmd

C9_Witness ==
    /\ Len(runs) >= 1
    /\ \E i \in TokenStarts(text) :
          ~HasEquals(TokenAt(text, i)) /\ ~OnCommentLine(text, i)
    /\ \E i \in TokenStarts(text) :
          HasEquals(TokenAt(text, i)) /\ OnCommentLine(text, i)
    /\ Cardinality(TokenStarts(text)) > Len(runs[1].out)

\* C10: the k-th entry returned is the k-th kept token of the text, cut at
\* its first "=": the label holds no "=" and label, "=", cmd spell the
\* token; and a second parse of the text returns what the first returned.
KthKept(s, k) ==
    CHOOSE i \in KeptStarts(s) : Cardinality({h \in KeptStarts(s) : h < i}) = k - 1

C10_OrderPreservedFirstEquals ==
    /\ \A r \in 1..Len(runs) :
          /\ Len(runs[r].out) = Cardinality(KeptStarts(text))
          /\ \A k \in 1..Len(runs[r].out) :
                LET e == runs[r].out[k]
                IN /\ ~HasEquals(e.label)
                   /\ e.label \o <<"=">> \o e.cmd = TokenAt(text, KthKept(text, k))
    /\ Len(runs) = 2 => runs[1] = runs[2]

C10_Witness ==
    /\ Len(runs) = 2
    /\ Len(runs[2].out) = 2
    /\ runs[2].out[1] # runs[2].out[2]
    /\ \E k \in 1..2 : HasEquals(runs[2].out[k].cmd)

\* C11: the short id is three decimal numerals joined by "x"; the first is
\* bits 40-63 of the chan_id, the second bits 16-39, the third bits 0-15,
\* and height * 2^40 + txIndex * 2^16 + outputIndex is the chan_id again.
FromDecimal(ds) ==
    LET DigitOf(ch) == (CHOOSE d \in 1..10 : DigitChars[d] = ch) - 1
        Value[n \in 0..Len(ds)] == IF n = 0 THEN 0 ELSE Value[n - 1] * 10 + DigitOf(ds[n])
    IN Value[Len(ds)]
IsNumeral(ds) ==
    /\ ds # <<>>
    /\ \A k \in 1..Len(ds) : \E d \in 1..10 : DigitChars[d] = ds[k]
    /\ (Len(ds) > 1 => ds[1] # "0")
BytesOf(n, width) == [k \in 1..width |-> (n \div (256 ^ (width - k))) % 256]

C11_ScidDecoding ==
    scid # NoScid =>
        LET parts == SplitOn(scid, "x")
        IN /\ Len(parts) = 3
           /\ \A k \in 1..3 : IsNumeral(parts[k])
           /\ LET height == FromDecimal(parts[1])
                  txIndex == FromDecimal(parts[2])
                  outputIndex == FromDecimal(parts[3])
              IN /\ height = chanId[1] * 65536 + chanId[2] * 256 + chanId[3]
                 /\ txIndex = chanId[4] * 65536 + chanId[5] * 256 + chanId[6]
                 /\ outputIndex = chanId[7] * 256 + chanId[8]
                 /\ BytesOf(height, 3) \o BytesOf(txIndex, 3) \o BytesOf(outputIndex, 2)
                      = chanId

\* 0x0000010000020003 gives "1x2x3"
C11_Witness ==
    /\ chanId = ExampleChanId
    /\ scid = <<"1", "x", "2", "x", "3">>

\* a label that spells the three bit fields of an id
SpellsScidOf(label, id) ==
    LET parts == SplitOn(label, "x")
    IN /\ Len(parts) = 3
       /\ \A k \in 1..3 : IsNumeral(parts[k])
       /\ FromDecimal(parts[1]) = id[1] * 65536 + id[2] * 256 + id[3]
       /\ FromDecimal(parts[2]) = id[4] * 65536 + id[5] * 256 + id[6]
       /\ FromDecimal(parts[3]) = id[7] * 256 + id[8]

FetchedChannels == IF channels.has THEN channels.list ELSE <<>>

\* one sample per channel, in list order, under the channel's short id,
\* valued at the number of its pending HTLC records
OneSamplePerChannel ==
    /\ ~htlcOut.raised
    /\ Len(htlcOut.samples) = Len(FetchedChannels)
    /\ \A k \in 1..Len(FetchedChannels) :
          /\ SpellsScidOf(htlcOut.samples[k].label, FetchedChannels[k].id)
          /\ htlcOut.samples[k].value =
                (IF FetchedChannels[k].hasPending
                 THEN Cardinality(DOMAIN FetchedChannels[k].pending) ELSE 0)

\* C12: on a decoded object whose channel records all carry a chan_id that
\* int() accepts, the HTLC collector emits exactly one sample per channel,
\* in list order, labeled with the channel's short id and valued at the
\* number of its pending HTLC records (0 without any), hence no sample and
\* no error for a missing or empty list; when some record carries no such
\* id there is no short id to label with, and the collector raises and
\* emits nothing.
C12_SamplePerDecodableChannel ==
    (htlcOut.called /\ channels.kind = "object") =>
        IF \A k \in 1..Len(FetchedChannels) : FetchedChannels[k].idKind = "int"
        THEN OneSamplePerChannel
        ELSE htlcOut.raised /\ htlcOut.samples = <<>>

\* two channels with 0 and 3 pending HTLCs: two samples, 0 and 3
C12_Witness ==
    /\ htlcOut.called
    /\ ~htlcOut.raised
    /\ Len(htlcOut.samples) = 2
    /\ htlcOut.samples[1].value = 0
    /\ htlcOut.samples[2].value = 3
    /\ htlcOut.samples[1].label # htlcOut.samples[2].label
    /\ channels.list[1].hasPending

\* C13: on a decoded object the failed-payments collector emits exactly one
\* sample, without labels, whose value is the number of payments of the
\* list whose status is "FAILED"; that is 0 when there is no payments key.
C13_FailedPaymentsCounted ==
    (failedOut.called /\ payments.kind = "object") =>
        /\ ~failedOut.raised
        /\ Len(failedOut.samples) = 1
        /\ failedOut.samples[1].label = <<>>
        /\ failedOut.samples[1].value =
              (IF payments.has
               THEN Cardinality({k \in 1..Len(payments.list) :
                                    /\ payments.list[k].hasStatus
                                    /\ payments.list[k].status = "FAILED"})
               ELSE 0)

\* FAILED, SUCCEEDED, FAILED gives 2
C13_Witness ==
    /\ failedOut.called
    /\ payments.has
    /\ Len(payments.list) = 3
    /\ \A k \in 1..3 : payments.list[k].hasStatus
    /\ <<payments.list[1].status, payments.list[2].status, payments.list[3].status>>
          = <<"FAILED", "SUCCEEDED", "FAILED">>
    /\ failedOut.samples = <<[label |-> <<>>, value |-> 2]>>

\* C14: while the server runs no two processed entries of the specification
\* share a label, a specification that declares a label twice having
\* aborted startup at the second of them.
C14_LabelsUnique ==
    phase = "serving" =>
        \A j, k \in 1..Len(entries) :
            j # k => entries[j].label # entries[k].label

\* C16: within one get call the sleeps number the failed attempts: at every
\* attempt boundary as many sleeps were taken as attempts failed, a call
\* that raises has slept once per attempt, the last one included, and the
\* successful attempt of a call that returns was followed by none.
C16_SleepAfterEveryFailure ==
    \A t \in Running :
        /\ thr[t].pc \in {"loop", "finally", "done"} =>
              thr[t].slp = thr[t].i - (IF thr[t].ret \in Bodies THEN 1 ELSE 0)
        /\ thr[t].ret = "raised" => thr[t].slp = retries
        /\ thr[t].ret \in Bodies => thr[t].slp = thr[t].okAt - 1

\* a call of two attempts or more has raised, and slept after the last too
C16_Witness ==
    /\ retries >= 2
    /\ thr[1].ret = "raised"
    /\ thr[1].slp = retries

\* no scrape was served on a server thread
NeverScraped(t) == thr[t].pc = "idle" /\ thr[t].idx = 0 /\ thr[t].page = "none"

\* C17: the server runs only once the registration loop has processed every
\* entry; a startup in which a registration raised stays aborted for good,
\* with the server not started and no scrape served, whatever was
\* registered before.
C17_FailFast ==
    /\ [](phase = "serving" =>
            regIdx = Len(entries) + 1 /\ Len(registry) = Len(entries))
    /\ [](phase # "serving" => \A t \in Servers : NeverScraped(t))
    /\ [][phase = "aborted" => phase' = "aborted"]_vars

\* startup aborted at an entry after one that had been registered
C17_Witness ==
    /\ phase = "aborted"
    /\ Len(registry) >= 1
    /\ regIdx = Len(registry) + 1

\* C15: a scrape that an exception ended still reports every item it had
\* evaluated without one.
C15_FailureIsolated ==
    \A t \in Servers :
        thr[t].page \in {"fetch failed", "evaluation failed"} =>
            thr[t].shown = thr[t].good

\* C19 as stated: once get is over, an attempt of the call that met a status
\* below 400 has set the heartbeat.
C19_SetOnEveryLowStatus ==
    \A t \in Running :
        (GetOver(t) /\ thr[t].lowAt > 0) =>
            thr[t].hbAt > 0 /\ heartbeat = thr[t].hbAt

\* C19 amended: once get is over, an attempt of the call that met a status
\* below 400 and whose body was read and decoded has set the heartbeat to
\* the time read then; and after an evaluation that failed on what such a
\* call returned the heartbeat still stands at that time.
C19_HeartbeatFollowsHttpSuccess ==
    \A t \in Running :
        /\ (GetOver(t) /\ thr[t].okAt > 0) =>
              /\ thr[t].hbAt = thr[t].now
              /\ thr[t].hbAt > 0
              /\ heartbeat = thr[t].hbAt
        /\ (thr[t].page = "evaluation failed" /\ thr[t].hbAt > 0) =>
              heartbeat = thr[t].hbAt

\* a scrape ended on a body its evaluation raised on, after the heartbeat
\* had moved on from where the scrape found it
C19_Witness ==
    /\ thr[1].page = "evaluation failed"
    /\ thr[1].hbAt > 0
    /\ heartbeat = thr[1].hbAt
    /\ clock > 1

\* C18 as stated: a get call blocks for at most timeout x retries.
C18_BlockedAtMostTimeoutTimesRetries ==
    \A t \in Running : thr[t].blk <= timeout * retries

\* C18 amended: a get call blocks for at most retries x (timeout +
\* retry_sleep), and for exactly that long when every attempt runs into the
\* timeout and the call raises.
C18_BlockedAtMostWithSleeps ==
    \A t \in Running :
        /\ thr[t].blk <= retries * (timeout + retry_sleep)
        /\ thr[t].ret = "raised" => thr[t].blk = retries * (timeout + retry_sleep)

\* a call of several attempts has raised after blocking longer than
\* timeout x retries
C18_Witness ==
    /\ retries >= 2
    /\ retry_sleep > 0
    /\ thr[1].ret = "raised"
    /\ thr[1].blk > timeout * retries

====
